---- MODULE Spec2Model ----
(***************************************************************************)
(* CfgEnv, the EVM configuration value of crates/wiring/src/default/cfg.rs, *)
(* and its implementation of the Cfg trait.                                 *)
(*                                                                          *)
(* A build enables a set of cargo features; a CfgEnv value is a function    *)
(* from the names of the fields compiled into that build to their values.   *)
(* u64 and usize values (64-bit target) are kept as four 16-bit limbs,      *)
(* least significant first, so that 2^32 - 1 and 2^64 - 1 are represented   *)
(* exactly.                                                                 *)
(***************************************************************************)
EXTENDS Integers, Sequences, FiniteSets, TLC

VARIABLES
    features,     \* the cargo features of the build
    constructed,  \* the CfgEnv value as it was constructed
    cfg,          \* the CfgEnv value now
    last_update,  \* the argument of the last with_chain_id since construction
    ret           \* the operation called last and what it returned

vars == <<features, constructed, cfg, last_update, ret>>

-----------------------------------------------------------------------------
(* Machine integers.                                                        *)

\* u64, and usize on a 64-bit target
WordBits == 64
Limbs == 1 .. 4
LimbBits == WordBits \div 4
Base == 2 ^ LimbBits

\* What an operation that panics yields: no word at all.  Arithmetic overflow
\* panics when overflow checks are on.
Panic == << >>

\* The word whose value is n, for 0 <= n < 2^31.
Word(n) == [i \in Limbs |-> CASE i = 1 -> n % Base
                              [] i = 2 -> (n \div Base) % Base
                              [] OTHER -> 0]

WordMax == [i \in Limbs |-> Base - 1]

\* x << k on a 64-bit word: a shift by the width or more overflows.
Shl(x, k) ==
    IF k >= WordBits THEN Panic
    ELSE LET q == k \div LimbBits
             r == k % LimbBits
             lo(i) == IF i - q >= 1 THEN (x[i - q] * 2 ^ r) % Base ELSE 0
             hi(i) == IF i - q - 1 >= 1
                      THEN x[i - q - 1] \div 2 ^ (LimbBits - r) ELSE 0
         IN  [i \in Limbs |-> lo(i) + hi(i)]

\* borrow into limb i of x - y
RECURSIVE Borrow(_, _, _)
Borrow(x, y, i) ==
    IF i = 1 THEN 0
    ELSE IF x[i - 1] - y[i - 1] - Borrow(x, y, i - 1) < 0 THEN 1 ELSE 0

\* x - y on a 64-bit word: going below zero overflows.
Sub(x, y) ==
    IF x = Panic \/ y = Panic THEN Panic
    ELSE IF Borrow(x, y, 5) = 1 THEN Panic
    ELSE [i \in Limbs |-> (x[i] - y[i] - Borrow(x, y, i) + Base) % Base]

-----------------------------------------------------------------------------
(* Types.                                                                   *)

AnalysisKind == {"Raw", "Analyse"}
\* A slip: #[default] on the other variant.
AnalysisKind_default_Raw == "Raw"

AnalysisKind_default == "Analyse"

\* crate::kzg::EnvKzgSettings: the default trusted setup or a custom one.
EnvKzgSettings == {"Default", "Custom"}
\* <EnvKzgSettings as Default>::default()
EnvKzgSettings_default == "Default"

None == [tag |-> "None"]
Some(v) == [tag |-> "Some", val |-> v]

\* specification::constants::MAX_CODE_SIZE, 0x6000
MAX_CODE_SIZE == 24576

Features == {"serde", "c-kzg", "kzg-rs", "memory_limit",
             "optional_balance_check", "optional_block_gas_limit",
             "optional_eip3607", "optional_gas_refund", "optional_no_base_fee"}

\* #[cfg(any(feature = "c-kzg", feature = "kzg-rs"))]
HasKzg(F) == "c-kzg" \in F \/ "kzg-rs" \in F

\* The fields of struct CfgEnv in a build with features F.
Fields(F) ==
    {"chain_id", "perf_analyse_created_bytecodes", "limit_contract_code_size",
     "disable_nonce_check"}
    \cup (IF HasKzg(F) THEN {"kzg_settings"} ELSE {})
    \cup (IF "memory_limit" \in F THEN {"memory_limit"} ELSE {})
    \cup (IF "optional_balance_check" \in F THEN {"disable_balance_check"} ELSE {})
    \cup (IF "optional_block_gas_limit" \in F THEN {"disable_block_gas_limit"} ELSE {})
    \cup (IF "optional_eip3607" \in F THEN {"disable_eip3607"} ELSE {})
    \cup (IF "optional_gas_refund" \in F THEN {"disable_gas_refund"} ELSE {})
    \cup (IF "optional_no_base_fee" \in F THEN {"disable_base_fee"} ELSE {})

-----------------------------------------------------------------------------
(* impl Default for CfgEnv                                                  *)

default(F) ==
    [f \in Fields(F) |->
        CASE f = "chain_id" -> Word(1)
          [] f = "perf_analyse_created_bytecodes" -> AnalysisKind_default
          [] f = "limit_contract_code_size" -> None
          [] f = "disable_nonce_check" -> FALSE
          [] f = "kzg_settings" -> "Default"
          [] f = "memory_limit" -> Sub(Shl(Word(1), 32), Word(1))
          [] f = "disable_balance_check" -> FALSE
          [] f = "disable_block_gas_limit" -> FALSE
          [] f = "disable_eip3607" -> FALSE
          [] f = "disable_gas_refund" -> FALSE
          [] f = "disable_base_fee" -> FALSE]

-----------------------------------------------------------------------------
(* impl CfgEnv                                                              *)

\* A slip: the value is rebuilt and the code-size override is lost.
with_chain_id_rebuilt(self, c) ==
    [self EXCEPT !["chain_id"] = c, !["limit_contract_code_size"] = None]

\* A slip: the update also re-enables the nonce check.
with_chain_id_nonce_reset(self, c) ==
    [self EXCEPT !["chain_id"] = c, !["disable_nonce_check"] = FALSE]

\* A slip: the chain id goes through a 32-bit integer.
with_chain_id_truncated(self, c) ==
    [self EXCEPT !["chain_id"] = [i \in Limbs |-> IF i <= 2 THEN c[i] ELSE 0]]

with_chain_id(self, c) == [self EXCEPT !["chain_id"] = c]

-----------------------------------------------------------------------------
(* impl Cfg for CfgEnv                                                      *)

\* A slip: unwrap() in place of unwrap_or(): None panics.
unwrap(opt, d) == IF opt.tag = "Some" THEN opt.val ELSE Panic

unwrap_or(opt, d) == IF opt.tag = "Some" THEN opt.val ELSE d

chain_id(self) == self["chain_id"]

\* A slip: an override of 0 is taken for no override.
max_code_size_zero_unset(self) ==
    LET limit == self["limit_contract_code_size"] IN
    IF limit.tag = "Some" /\ limit.val # Word(0) THEN limit.val
    ELSE Word(MAX_CODE_SIZE)

max_code_size(self) ==
    unwrap_or(self["limit_contract_code_size"], Word(MAX_CODE_SIZE))

\* A slip: without the feature the check counts as disabled.
is_eip3607_disabled_absent_true(F, self) ==
    IF "optional_eip3607" \in F THEN self["disable_eip3607"] ELSE TRUE

is_eip3607_disabled(F, self) ==
    IF "optional_eip3607" \in F THEN self["disable_eip3607"] ELSE FALSE

is_balance_check_disabled(F, self) ==
    IF "optional_balance_check" \in F THEN self["disable_balance_check"] ELSE FALSE

\* A slip: the query reads another flag.
is_gas_refund_disabled_other_flag(F, self) ==
    IF "optional_gas_refund" \in F THEN self["disable_nonce_check"] ELSE FALSE

is_gas_refund_disabled(F, self) ==
    IF "optional_gas_refund" \in F THEN self["disable_gas_refund"] ELSE FALSE

is_block_gas_limit_disabled(F, self) ==
    IF "optional_block_gas_limit" \in F THEN self["disable_block_gas_limit"] ELSE FALSE

is_nonce_check_disabled(self) == self["disable_nonce_check"]

is_base_fee_check_disabled(F, self) ==
    IF "optional_no_base_fee" \in F THEN self["disable_base_fee"] ELSE FALSE

-----------------------------------------------------------------------------
(* #[derive(PartialEq)] on CfgEnv: the fields compared in declaration order. *)

FieldOrder == <<"chain_id", "kzg_settings", "perf_analyse_created_bytecodes",
                "limit_contract_code_size", "disable_nonce_check",
                "memory_limit", "disable_balance_check",
                "disable_block_gas_limit", "disable_eip3607",
                "disable_gas_refund", "disable_base_fee">>

\* A slip: a feature-gated field is left out of the comparison.
eq_without_memory_limit(F, a, b) ==
    \A i \in 1 .. Len(FieldOrder) :
        (FieldOrder[i] \in Fields(F) /\ FieldOrder[i] # "memory_limit")
            => a[FieldOrder[i]] = b[FieldOrder[i]]

eq(F, a, b) ==
    \A i \in 1 .. Len(FieldOrder) :
        FieldOrder[i] \in Fields(F) => a[FieldOrder[i]] = b[FieldOrder[i]]

-----------------------------------------------------------------------------
(* #[derive(serde::Serialize, serde::Deserialize)] on CfgEnv and on          *)
(* AnalysisKind.  A struct is written as its fields, name and value, in      *)
(* declaration order; a field marked serde(skip) is not written, and comes   *)
(* back as the Default of its type.                                          *)

SerdeSkip == {"kzg_settings"}

\* The type of each field, as serde sees it.
SerdeType(f) ==
    CASE f \in {"chain_id", "memory_limit"} -> "u64"
      [] f = "perf_analyse_created_bytecodes" -> "AnalysisKind"
      [] f = "limit_contract_code_size" -> "Option<usize>"
      [] f = "kzg_settings" -> "EnvKzgSettings"
      [] OTHER -> "bool"

\* A slip: a usize is written as a 32-bit integer.
Encode_usize_as_u32(ty, v) ==
    CASE ty = "u64" -> [t |-> "u64", v |-> v]
      [] ty = "bool" -> [t |-> "bool", v |-> v]
      [] ty = "AnalysisKind" -> [t |-> "unit_variant", v |-> v]
      [] ty = "Option<usize>" ->
            IF v.tag = "Some"
            THEN [t |-> "some",
                  v |-> [t |-> "u64",
                         v |-> [i \in Limbs |-> IF i <= 2 THEN v.val[i] ELSE 0]]]
            ELSE [t |-> "none"]

\* A value in serde's data model.
Encode(ty, v) ==
    CASE ty = "u64" -> [t |-> "u64", v |-> v]
      [] ty = "bool" -> [t |-> "bool", v |-> v]
      [] ty = "AnalysisKind" -> [t |-> "unit_variant", v |-> v]
      [] ty = "Option<usize>" ->
            IF v.tag = "Some" THEN [t |-> "some", v |-> [t |-> "u64", v |-> v.val]]
            ELSE [t |-> "none"]

Err == [ok |-> FALSE]
Ok(v) == [ok |-> TRUE, val |-> v]

Decode(ty, e) ==
    CASE ty = "u64" -> IF e.t = "u64" THEN Ok(e.v) ELSE Err
      [] ty = "bool" -> IF e.t = "bool" THEN Ok(e.v) ELSE Err
      [] ty = "AnalysisKind" ->
            IF e.t = "unit_variant" /\ e.v \in AnalysisKind THEN Ok(e.v) ELSE Err
      [] ty = "Option<usize>" ->
            IF e.t = "none" THEN Ok(None)
            ELSE IF e.t = "some" /\ e.v.t = "u64" THEN Ok(Some(e.v.v))
            ELSE Err

Serialize(F, self) ==
    LET emitted == SelectSeq(FieldOrder,
                             LAMBDA f : f \in Fields(F) /\ f \notin SerdeSkip)
    IN  [i \in 1 .. Len(emitted) |->
            <<emitted[i], Encode(SerdeType(emitted[i]), self[emitted[i]])>>]

\* The entries of the encoded struct under key f.
Entries(wire, f) == {i \in 1 .. Len(wire) : wire[i][1] = f}

DecodeField(wire, f) ==
    IF f \in SerdeSkip THEN Ok(EnvKzgSettings_default)
    ELSE IF Entries(wire, f) = {}
         THEN IF SerdeType(f) = "Option<usize>" THEN Ok(None) ELSE Err
    ELSE IF Cardinality(Entries(wire, f)) > 1 THEN Err
    ELSE Decode(SerdeType(f), wire[CHOOSE i \in Entries(wire, f) : TRUE][2])

Deserialize(F, wire) ==
    IF \E f \in Fields(F) : ~DecodeField(wire, f).ok THEN Err
    ELSE Ok([f \in Fields(F) |-> DecodeField(wire, f).val])

-----------------------------------------------------------------------------
(* Construction.  The fields of CfgEnv are pub: a caller builds a value by   *)
(* assigning fields of CfgEnv::default().                                    *)

\* How many fields a caller assigns after CfgEnv::default().
MaxAssigned == 1

ChainIds == {Word(0), WordMax}

CodeSizeLimits == {None, Some(Word(0)), Some(Word(MAX_CODE_SIZE)), Some(WordMax)}

MemoryLimits == {Word(0), WordMax}

\* The values of the type of field f.
FieldValues(f) ==
    CASE f = "chain_id" -> ChainIds
      [] f = "perf_analyse_created_bytecodes" -> AnalysisKind
      [] f = "limit_contract_code_size" -> CodeSizeLimits
      [] f = "kzg_settings" -> EnvKzgSettings
      [] f = "memory_limit" -> MemoryLimits
      [] OTHER -> BOOLEAN

RECURSIVE Assigned(_, _)
Assigned(F, n) ==
    IF n = 0 THEN {default(F)}
    ELSE LET S == Assigned(F, n - 1)
         IN  S \cup UNION {{[v EXCEPT ![f] = x] : x \in FieldValues(f)} :
                                v \in S, f \in Fields(F)}

NoUpdate == << >>

-----------------------------------------------------------------------------
(* The state machine: a caller constructs a value and calls its methods.     *)

Init ==
    /\ features \in SUBSET Features
    /\ constructed \in Assigned(features, MaxAssigned)
    /\ cfg = constructed
    /\ last_update = NoUpdate
    /\ ret = [op |-> "new", val |-> constructed]

\* CfgEnv::default()
Default ==
    /\ cfg' = default(features)
    /\ constructed' = cfg'
    /\ last_update' = NoUpdate
    /\ ret' = [op |-> "default", val |-> cfg']
    /\ UNCHANGED features

\* self.with_chain_id(c)
WithChainId ==
    \E c \in ChainIds :
        /\ cfg' = with_chain_id(cfg, c)
        /\ last_update' = c
        /\ ret' = [op |-> "with_chain_id", val |-> cfg']
        /\ UNCHANGED <<features, constructed>>

Returns(op, v) ==
    /\ ret' = [op |-> op, val |-> v]
    /\ UNCHANGED <<features, constructed, cfg, last_update>>

ChainId == Returns("chain_id", chain_id(cfg))

MaxCodeSize == Returns("max_code_size", max_code_size(cfg))

IsEip3607Disabled ==
    Returns("is_eip3607_disabled", is_eip3607_disabled(features, cfg))

IsBalanceCheckDisabled ==
    Returns("is_balance_check_disabled", is_balance_check_disabled(features, cfg))

IsGasRefundDisabled ==
    Returns("is_gas_refund_disabled", is_gas_refund_disabled(features, cfg))

IsBlockGasLimitDisabled ==
    Returns("is_block_gas_limit_disabled", is_block_gas_limit_disabled(features, cfg))

IsNonceCheckDisabled ==
    Returns("is_nonce_check_disabled", is_nonce_check_disabled(cfg))

IsBaseFeeCheckDisabled ==
    Returns("is_base_fee_check_disabled", is_base_fee_check_disabled(features, cfg))

\* self == other, against the value as constructed or a fresh default
Eq ==
    \E other \in {constructed, default(features)} :
        /\ ret' = [op |-> "eq", other |-> other, val |-> eq(features, cfg, other)]
        /\ UNCHANGED <<features, constructed, cfg, last_update>>

\* serialize self
SerializeCfg ==
    /\ "serde" \in features
    /\ Returns("serialize", Serialize(features, cfg))

\* deserialize what was just serialized, on the same build
DeserializeCfg ==
    /\ "serde" \in features
    /\ ret.op = "serialize"
    /\ Returns("deserialize", Deserialize(features, ret.val))

Next ==
    \/ Default
    \/ WithChainId
    \/ ChainId
    \/ MaxCodeSize
    \/ IsEip3607Disabled
    \/ IsBalanceCheckDisabled
    \/ IsGasRefundDisabled
    \/ IsBlockGasLimitDisabled
    \/ IsNonceCheckDisabled
    \/ IsBaseFeeCheckDisabled
    \/ Eq
    \/ SerializeCfg
    \/ DeserializeCfg

Spec == Init /\ [][Next]_vars

-----------------------------------------------------------------------------
(* Properties.                                                               *)

IsWord(x) == DOMAIN x = Limbs /\ \A i \in Limbs : x[i] \in 0 .. Base - 1

GatedQueries == {"is_eip3607_disabled", "is_balance_check_disabled",
                 "is_gas_refund_disabled", "is_block_gas_limit_disabled",
                 "is_base_fee_check_disabled"}

BoolQueries == GatedQueries \cup {"is_nonce_check_disabled"}

Queries == BoolQueries \cup {"chain_id", "max_code_size"}

\* The feature and the field behind each gated query.
FeatureOf(q) ==
    CASE q = "is_eip3607_disabled" -> "optional_eip3607"
      [] q = "is_balance_check_disabled" -> "optional_balance_check"
      [] q = "is_gas_refund_disabled" -> "optional_gas_refund"
      [] q = "is_block_gas_limit_disabled" -> "optional_block_gas_limit"
      [] q = "is_base_fee_check_disabled" -> "optional_no_base_fee"

FlagOf(q) ==
    CASE q = "is_eip3607_disabled" -> "disable_eip3607"
      [] q = "is_balance_check_disabled" -> "disable_balance_check"
      [] q = "is_gas_refund_disabled" -> "disable_gas_refund"
      [] q = "is_block_gas_limit_disabled" -> "disable_block_gas_limit"
      [] q = "is_base_fee_check_disabled" -> "disable_base_fee"
      [] q = "is_nonce_check_disabled" -> "disable_nonce_check"

\* What each boolean query answers for value v in a build with features F.
Answer(q, F, v) ==
    CASE q = "is_eip3607_disabled" -> is_eip3607_disabled(F, v)
      [] q = "is_balance_check_disabled" -> is_balance_check_disabled(F, v)
      [] q = "is_gas_refund_disabled" -> is_gas_refund_disabled(F, v)
      [] q = "is_block_gas_limit_disabled" -> is_block_gas_limit_disabled(F, v)
      [] q = "is_base_fee_check_disabled" -> is_base_fee_check_disabled(F, v)
      [] q = "is_nonce_check_disabled" -> is_nonce_check_disabled(v)

\* C1: in every build, CfgEnv::default() has chain id 1, analysis mode
\* Analyse, no code-size override (so max_code_size() is 24576), memory limit
\* 2^32 - 1 when the memory_limit feature is on, and answers false to each of
\* the six is_*_disabled queries.
C1_DefaultValues ==
    ret.op = "default" =>
        /\ chain_id(ret.val) = <<1, 0, 0, 0>>
        /\ ret.val["perf_analyse_created_bytecodes"] = "Analyse"
        /\ ret.val["limit_contract_code_size"] = None
        /\ max_code_size(ret.val) = <<24576, 0, 0, 0>>
        /\ "memory_limit" \in features =>
                ret.val["memory_limit"] = <<65535, 65535, 0, 0>>
        /\ \A q \in BoolQueries : Answer(q, features, ret.val) = FALSE

C1_Witness ==
    /\ ret.op = "default"
    /\ cfg = ret.val
    /\ {"memory_limit", "optional_eip3607", "optional_no_base_fee"} \subseteq features

\* C2: a gated suppression query whose feature is absent from the build
\* answers false, whatever the other fields hold and whichever other features
\* are on.
C2_AbsentFeatureIsFalse ==
    \A q \in GatedQueries :
        FeatureOf(q) \notin features =>
            /\ Answer(q, features, cfg) = FALSE
            /\ ret.op = q => ret.val = FALSE

C2_Witness ==
    /\ ret.op = "is_eip3607_disabled"
    /\ "optional_eip3607" \notin features
    /\ "optional_balance_check" \in features
    /\ cfg["disable_balance_check"] = TRUE

\* C3: max_code_size() returns n when the override is Some(n), for every n
\* (0 and the largest usize included), and 24576 when it is None; so the
\* result is 24576 only for None and for Some(24576).
C3_MaxCodeSize ==
    LET limit == cfg["limit_contract_code_size"] IN
    ret.op = "max_code_size" =>
        /\ limit # None => limit = Some(ret.val)
        /\ limit = None => ret.val = <<24576, 0, 0, 0>>
        /\ ret.val = <<24576, 0, 0, 0>> =>
                limit \in {None, Some(<<24576, 0, 0, 0>>)}

C3_Witness ==
    /\ ret.op = "max_code_size"
    /\ cfg["limit_contract_code_size"] = Some(<<0, 0, 0, 0>>)
    /\ ret.val = <<0, 0, 0, 0>>

\* C4: with_chain_id(c) changes the chain_id field only: max_code_size(), the
\* analysis mode, the memory limit, the KZG settings and the six is_*_disabled
\* answers are the same after the call as before it.
C4_WithChainIdFrame ==
    [][ret'.op = "with_chain_id" =>
        /\ max_code_size(cfg') = max_code_size(cfg)
        /\ cfg'["perf_analyse_created_bytecodes"] = cfg["perf_analyse_created_bytecodes"]
        /\ "memory_limit" \in features => cfg'["memory_limit"] = cfg["memory_limit"]
        /\ HasKzg(features) => cfg'["kzg_settings"] = cfg["kzg_settings"]
        /\ \A q \in BoolQueries :
                Answer(q, features, cfg') = Answer(q, features, cfg)
        /\ DOMAIN cfg' = DOMAIN cfg]_vars

C4_Witness ==
    /\ ret.op = "with_chain_id"
    /\ chain_id(cfg) # chain_id(constructed)
    /\ cfg["limit_contract_code_size"] = Some(WordMax)

\* C5: == on CfgEnv holds exactly when every field of the build is equal: two
\* defaults are equal, and a value that differs from the default in one field
\* is not equal to it.
C5_Equality ==
    LET d == default(features) IN
    /\ ret.op = "eq" => (ret.val <=> cfg = ret.other)
    /\ ret.op = "default" =>
            /\ eq(features, ret.val, d)
            /\ \A f \in Fields(features) : \A x \in FieldValues(f) \ {d[f]} :
                    /\ ~eq(features, [d EXCEPT ![f] = x], d)
                    /\ ~eq(features, d, [d EXCEPT ![f] = x])

C5_Witness ==
    /\ ret.op = "eq"
    /\ ret.other = default(features)
    /\ ret.val = FALSE
    /\ Cardinality({f \in Fields(features) : cfg[f] # ret.other[f]}) = 1

\* The keys of an encoded struct.
Keys(wire) == {wire[i][1] : i \in 1 .. Len(wire)}

\* C6, as claimed: decoding the encoding of a value, on the same build, gives
\* a value equal to the original in every field of the build.
C6_RoundTripEveryField ==
    ret.op = "deserialize" =>
        /\ ret.val.ok
        /\ \A f \in Fields(features) : ret.val.val[f] = cfg[f]

\* C6, amended: decoding the encoding of a value, on the same build, succeeds
\* and gives a value equal to the original in every field but kzg_settings,
\* which is never written and comes back as EnvKzgSettings::Default; the
\* result equals the original when the original has no kzg_settings field or
\* holds the default there.  The encoding holds exactly the other fields of
\* the build, each once.
C6_RoundTrip ==
    /\ ret.op = "serialize" =>
            /\ Keys(ret.val) = Fields(features) \ {"kzg_settings"}
            /\ Len(ret.val) = Cardinality(Keys(ret.val))
    /\ ret.op = "deserialize" =>
            /\ ret.val.ok
            /\ DOMAIN ret.val.val = Fields(features)
            /\ \A f \in Fields(features) \ {"kzg_settings"} :
                    ret.val.val[f] = cfg[f]
            /\ HasKzg(features) => ret.val.val["kzg_settings"] = "Default"
            /\ (HasKzg(features) => cfg["kzg_settings"] = "Default")
                    => eq(features, ret.val.val, cfg)

C6_Witness ==
    /\ ret.op = "deserialize"
    /\ HasKzg(features)
    /\ cfg["kzg_settings"] = "Custom"
    /\ "memory_limit" \in features
    /\ "optional_gas_refund" \notin features

\* C7: no query changes the value, and with_chain_id changes chain_id only:
\* after any calls of queries and with_chain_id every other field holds what
\* it was constructed with.
C7_OnlyChainIdChanges ==
    /\ [](\A f \in Fields(features) \ {"chain_id"} : cfg[f] = constructed[f])
    /\ [][ret'.op \in Queries => cfg' = cfg /\ constructed' = constructed]_vars

C7_Witness ==
    /\ last_update # NoUpdate
    /\ ret.op \in Queries
    /\ chain_id(cfg) # chain_id(constructed)
    /\ cfg["disable_nonce_check"] = TRUE

\* C8: each boolean query answers with its own field: the nonce query in
\* every build, a gated query when its feature is on; so a value answers as
\* the default does wherever it agrees with the default on that field.
C8_QueryReportsOwnField ==
    \A q \in BoolQueries :
        (q \in GatedQueries => FeatureOf(q) \in features) =>
            /\ Answer(q, features, cfg) = cfg[FlagOf(q)]
            /\ ret.op = q => ret.val = cfg[FlagOf(q)]
            /\ cfg[FlagOf(q)] = default(features)[FlagOf(q)] =>
                    Answer(q, features, cfg) = Answer(q, features, default(features))

C8_Witness ==
    /\ ret.op = "is_gas_refund_disabled"
    /\ ret.val = TRUE
    /\ cfg["disable_nonce_check"] = FALSE
    /\ "optional_no_base_fee" \in features

\* A well-formed CfgEnv value of a build with features F.
IsCfgEnv(F, v) ==
    /\ DOMAIN v = Fields(F)
    /\ IsWord(v["chain_id"])
    /\ v["perf_analyse_created_bytecodes"] \in AnalysisKind
    /\ \/ v["limit_contract_code_size"] = None
       \/ /\ v["limit_contract_code_size"].tag = "Some"
          /\ IsWord(v["limit_contract_code_size"].val)
    /\ v["disable_nonce_check"] \in BOOLEAN
    /\ HasKzg(F) => v["kzg_settings"] \in EnvKzgSettings
    /\ "memory_limit" \in F => IsWord(v["memory_limit"])
    /\ \A q \in GatedQueries : FeatureOf(q) \in F => v[FlagOf(q)] \in BOOLEAN

\* C9: default(), with_chain_id(c) and the eight queries always return a
\* value of their type and never panic, for every value and every build.
C9_Total ==
    /\ ret.op \in {"default", "with_chain_id"} => IsCfgEnv(features, ret.val)
    /\ ret.op \in {"chain_id", "max_code_size"} => IsWord(ret.val)
    /\ ret.op \in BoolQueries => ret.val \in BOOLEAN
    /\ IsCfgEnv(features, default(features))
    /\ IsWord(max_code_size(cfg))

C9_Witness ==
    /\ ret.op = "max_code_size"
    /\ cfg["limit_contract_code_size"] = None
    /\ chain_id(cfg) = WordMax

\* C10: after with_chain_id(c1), ..., with_chain_id(cn) on a value v,
\* chain_id() returns cn, untruncated, and the value is v.with_chain_id(cn);
\* with_chain_id is idempotent and with_chain_id(v.chain_id()) is v.
C10_LastUpdateWins ==
    /\ last_update # NoUpdate =>
            /\ chain_id(cfg) = last_update
            /\ cfg = with_chain_id(constructed, last_update)
            /\ ret.op = "chain_id" => ret.val = last_update
    /\ \A c \in ChainIds :
            /\ with_chain_id(with_chain_id(cfg, c), c) = with_chain_id(cfg, c)
            /\ chain_id(with_chain_id(cfg, c)) = c
            /\ \A b \in ChainIds :
                    with_chain_id(with_chain_id(cfg, b), c) = with_chain_id(cfg, c)
    /\ with_chain_id(cfg, chain_id(cfg)) = cfg

C10_Witness ==
    /\ last_update = WordMax
    /\ ret.op = "chain_id"
    /\ ret.val = <<65535, 65535, 65535, 65535>>
    /\ chain_id(constructed) = Word(0)

====
